---------------------------- MODULE Spec2Model ----------------------------
(***************************************************************************)
(* A model of the Texas Hold'em Monte Carlo simulator in src/src/main.rs:  *)
(* the deck, the five-card and seven-card hand evaluators, one simulated   *)
(* game, and the parallel trial driver that merges the results.            *)
(*                                                                         *)
(* Ranks are the integers 2..14 (the discriminants of enum Rank), so the   *)
(* derived order on Rank is the order on integers.  A HandRank is a record *)
(* [cat, r1, r2]; a variant that carries fewer than two ranks has 0 in the *)
(* unused fields.                                                          *)
(***************************************************************************)
EXTENDS Integers, Sequences, FiniteSets, TLC

VARIABLES
    cards,          \* evaluate_five_card_hand: the five cards given
    hand_rank,      \* evaluate_five_card_hand: the value the last call returned
    prev_rank,      \* evaluate_five_card_hand: the value the call before returned
    deck,           \* Deck.cards, the last element being the top
    dealt,          \* the cards deal() has returned, in order
    last_deal,      \* what the last deal() returned: a card or NoCard
    shuffles,       \* the number of shuffle() calls so far
    all_cards,      \* evaluate_hand: the seven cards given
    combo,          \* evaluate_hand: the position of the loop in the combinations
    best_rank,      \* evaluate_hand: best_rank
    returned,       \* evaluate_hand: the values the five-card calls returned so far
    game,           \* simulate_game: its locals and its position
    num_games,      \* main: num_games
    num_players,    \* main: num_players
    remaining,      \* main: the trials of 0..num_games no worker has taken yet
    worker,         \* main: per worker, its position and its trial's results
    wins,           \* main: the vector behind the wins mutex
    hand_rank_counts, \* main: the map behind the hand_rank_counts mutex
    wins_mutex,     \* main: the holder of the wins mutex, or Free
    counts_mutex    \* main: the holder of the hand_rank_counts mutex, or Free

evalVars == <<cards, hand_rank, prev_rank>>
deckVars == <<deck, dealt, last_deal, shuffles>>
handVars == <<all_cards, combo, best_rank, returned>>
simVars == <<game>>
mainVars == <<num_games, num_players, remaining, worker, wins, hand_rank_counts,
              wins_mutex, counts_mutex>>

vars == <<evalVars, deckVars, handVars, simVars, mainVars>>

\* "no value yet" for a variable that holds a HandRank
NoRank == [cat |-> "None", r1 |-> 0, r2 |-> 0]

-----------------------------------------------------------------------------
(* Suit, Rank, Card                                                        *)

Suits == <<"Clubs", "Diamonds", "Hearts", "Spades">>

Two == 2
Three == 3
Four == 4
Five == 5
Six == 6
Ten == 10
King == 13
Ace == 14

Ranks == Two..Ace

Card(rank, suit) == [rank |-> rank, suit |-> suit]

\* a Mutex nobody holds (a held one has its holder's number)
Free == 0

\* Option<Card>::None
NoCard == [rank |-> 0, suit |-> "None"]

-----------------------------------------------------------------------------
(* Sequence helpers that stand for the slice operations the code uses      *)

Range(s) == {s[k] : k \in DOMAIN s}

Reverse(s) == [k \in 1..Len(s) |-> s[Len(s) + 1 - k]]

RECURSIVE InsertSorted(_, _)
InsertSorted(x, s) ==
    IF s = <<>> THEN <<x>>
    ELSE IF x <= Head(s) THEN <<x>> \o s
    ELSE <<Head(s)>> \o InsertSorted(x, Tail(s))

\* slice::sort_unstable on integers: ascending
RECURSIVE SortAscending(_)
SortAscending(s) ==
    IF s = <<>> THEN <<>> ELSE InsertSorted(Head(s), SortAscending(Tail(s)))

\* sort_by(|a, b| b.cmp(a)): descending
SortDescending(s) == Reverse(SortAscending(s))

\* Vec::dedup: drops every element equal to the one before it
RECURSIVE Dedup(_)
Dedup(s) ==
    IF Len(s) <= 1 THEN s
    ELSE IF s[1] = s[2] THEN Dedup(Tail(s))
    ELSE <<s[1]>> \o Dedup(Tail(s))

Contains(s, x) == \E k \in DOMAIN s : s[k] = x

RECURSIVE Filter(_, _)
Filter(s, keep) ==
    IF s = <<>> THEN <<>>
    ELSE IF Head(s) \in keep THEN <<Head(s)>> \o Filter(Tail(s), keep)
    ELSE Filter(Tail(s), keep)

\* the elements of a set of integers, ascending
RECURSIVE SetToSeq(_)
SetToSeq(S) ==
    IF S = {} THEN <<>>
    ELSE LET m == CHOOSE x \in S : \A y \in S : x <= y
         IN  <<m>> \o SetToSeq(S \ {m})

\* the elements of s at the positions p lists, in that order
Permute(s, p) == [k \in DOMAIN p |-> s[p[k]]]

RanksOf(hand) == [k \in DOMAIN hand |-> hand[k].rank]

-----------------------------------------------------------------------------
(* Deck                                                                    *)

\* Deck::new: suit-major, ranks 2..=14 within each suit, pushed in that order
DeckNew ==
    [k \in 1..(Len(Suits) * Cardinality(Ranks)) |->
        Card(Two + ((k - 1) % Cardinality(Ranks)),
             Suits[((k - 1) \div Cardinality(Ranks)) + 1])]

Swap(s, a, b) == [s EXCEPT ![a] = s[b], ![b] = s[a]]

\* SliceRandom::shuffle is a Fisher-Yates pass from the last index down, each
\* swap partner drawn from the generator.  The generator's stream is
\* unconstrained; the model draws it from a bounded family, one linear
\* congruential stream per seed.
RECURSIVE FisherYates(_, _, _)
FisherYates(s, i, x) ==
    IF i <= 1 THEN s
    ELSE LET y == (x * 75 + 74) % 65537
         IN  FisherYates(Swap(s, i, (y % i) + 1), i - 1, y)

\* a shuffle that copies the swap partner over the slot instead of swapping
RECURSIVE FisherYatesCopy(_, _, _)
FisherYatesCopy(s, i, x) ==
    IF i <= 1 THEN s
    ELSE LET y == (x * 75 + 74) % 65537
         IN  FisherYatesCopy([s EXCEPT ![i] = s[(y % i) + 1]], i - 1, y)

ShuffledCopy(s, seed) == FisherYatesCopy(s, Len(s), seed)

\* Deck::shuffle / Vec::shuffle with the generator in the state `seed`
Shuffled(s, seed) == FisherYates(s, Len(s), seed)

\* Deck::deal: Vec::pop, the value returned
DealCard(d) == IF d = <<>> THEN NoCard ELSE d[Len(d)]

\* Deck::deal: Vec::pop, the cards left
DealRest(d) == IF d = <<>> THEN <<>> ELSE SubSeq(d, 1, Len(d) - 1)

-----------------------------------------------------------------------------
(* HandRank and its derived order                                          *)

Categories ==
    <<"HighCard", "OnePair", "TwoPair", "ThreeOfAKind", "Straight", "Flush",
      "FullHouse", "FourOfAKind", "StraightFlush", "RoyalFlush">>

HighCard(r) == [cat |-> "HighCard", r1 |-> r, r2 |-> 0]
OnePair(r) == [cat |-> "OnePair", r1 |-> r, r2 |-> 0]
TwoPair(a, b) == [cat |-> "TwoPair", r1 |-> a, r2 |-> b]
ThreeOfAKind(r) == [cat |-> "ThreeOfAKind", r1 |-> r, r2 |-> 0]
Straight(r) == [cat |-> "Straight", r1 |-> r, r2 |-> 0]
Flush(r) == [cat |-> "Flush", r1 |-> r, r2 |-> 0]
FullHouse(a, b) == [cat |-> "FullHouse", r1 |-> a, r2 |-> b]
FourOfAKind(r) == [cat |-> "FourOfAKind", r1 |-> r, r2 |-> 0]
StraightFlush(r) == [cat |-> "StraightFlush", r1 |-> r, r2 |-> 0]
RoyalFlush == [cat |-> "RoyalFlush", r1 |-> 0, r2 |-> 0]

\* every value of the type HandRank
HandRankValues ==
    {HighCard(r) : r \in Ranks} \cup {OnePair(r) : r \in Ranks}
    \cup {TwoPair(a, b) : a \in Ranks, b \in Ranks}
    \cup {ThreeOfAKind(r) : r \in Ranks} \cup {Straight(r) : r \in Ranks}
    \cup {Flush(r) : r \in Ranks}
    \cup {FullHouse(a, b) : a \in Ranks, b \in Ranks}
    \cup {FourOfAKind(r) : r \in Ranks} \cup {StraightFlush(r) : r \in Ranks}
    \cup {RoyalFlush}

\* the position of a variant in the enum declaration, which #[derive(Ord)]
\* compares first
VariantIndexSwapped(cat) ==
    LET swapped == <<"HighCard", "OnePair", "TwoPair", "ThreeOfAKind", "Flush",
                     "Straight", "FullHouse", "FourOfAKind", "StraightFlush",
                     "RoyalFlush">>
    IN  CHOOSE k \in DOMAIN swapped : swapped[k] = cat

VariantIndex(cat) == CHOOSE k \in DOMAIN Categories : Categories[k] = cat

\* #[derive(PartialOrd, Ord)]: the variant first, then the fields in order
HandRankLess(a, b) ==
    \/ VariantIndex(a.cat) < VariantIndex(b.cat)
    \/ /\ a.cat = b.cat
       /\ \/ a.r1 < b.r1
          \/ a.r1 = b.r1 /\ a.r2 < b.r2

HandRankGreater(a, b) == HandRankLess(b, a)

\* hand_rank_category: the label of the variant
hand_rank_category(h) == h.cat

-----------------------------------------------------------------------------
(* is_sequence, get_rank_counts, evaluate_five_card_hand                   *)

\* is_sequence with a wheel test that only looks for the two and the ace
is_sequence_loose_wheel(rank_values) ==
    LET ranks == Dedup(SortAscending(rank_values))
    IN  IF Len(ranks) # 5 THEN FALSE
        ELSE LET is_regular_straight == ranks[5] - ranks[1] = 4
                 is_wheel_straight == ranks[1] = 2 /\ ranks[5] = 14
             IN  is_regular_straight \/ is_wheel_straight

is_sequence(rank_values) ==
    LET ranks == Dedup(SortAscending(rank_values))
    IN  IF Len(ranks) # 5 THEN FALSE
        ELSE LET is_regular_straight == ranks[5] - ranks[1] = 4
                 is_wheel_straight == ranks = <<2, 3, 4, 5, 14>>
             IN  is_regular_straight \/ is_wheel_straight

\* the map rank -> number of occurrences
get_rank_counts(ranks) ==
    [r \in Range(ranks) |-> Cardinality({k \in DOMAIN ranks : ranks[k] = r})]

\* The order in which a HashMap hands out its entries is unspecified and
\* differs from one map to the next (each map is keyed by a fresh RandomState).
\* An iteration order is a sequence listing the keys once each; the model
\* draws it from the ascending and the descending key order, which between
\* them put any two keys both ways round.
IterOrders(rank_counts) ==
    LET asc == SetToSeq(DOMAIN rank_counts)
    IN  {asc, Reverse(asc)}

\* rank_counts.iter().find(|&(_, &count)| count == n).unwrap().0
FindCount(rank_counts, iter, n) ==
    iter[CHOOSE k \in DOMAIN iter :
            /\ rank_counts[iter[k]] = n
            /\ \A j \in 1..(k - 1) : rank_counts[iter[j]] # n]

evaluate_five_card_hand(hand, iter) ==
    LET ranks == SortDescending([k \in DOMAIN hand |-> hand[k].rank])
        rank_values == Dedup(SortAscending([k \in DOMAIN hand |-> hand[k].rank]))
        suits == [k \in DOMAIN hand |-> hand[k].suit]
        is_flush == \A k \in DOMAIN suits : suits[k] = suits[1]
        is_straight == is_sequence(rank_values)
        rank_counts == get_rank_counts(ranks)
        counts == [k \in DOMAIN iter |-> rank_counts[iter[k]]]
        pair_ranks == Filter(iter, {r \in DOMAIN rank_counts : rank_counts[r] = 2})
    IN  IF is_flush /\ is_straight
        THEN IF Contains(ranks, Ace) /\ Contains(ranks, King)
             THEN RoyalFlush
             ELSE StraightFlush(ranks[1])
        ELSE IF Contains(counts, 4)
        THEN FourOfAKind(FindCount(rank_counts, iter, 4))
        ELSE IF Contains(counts, 3) /\ Contains(counts, 2)
        THEN FullHouse(FindCount(rank_counts, iter, 3),
                       FindCount(rank_counts, iter, 2))
        ELSE IF is_flush THEN Flush(ranks[1])
        ELSE IF is_straight THEN Straight(ranks[1])
        ELSE IF Contains(counts, 3)
        THEN ThreeOfAKind(FindCount(rank_counts, iter, 3))
        ELSE IF Len(pair_ranks) = 2 THEN TwoPair(pair_ranks[1], pair_ranks[2])
        ELSE IF Len(pair_ranks) = 1 THEN OnePair(pair_ranks[1])
        ELSE HighCard(ranks[1])

\* every value a call on these cards can return, over the iteration orders
FiveCardOutcomes(hand) ==
    LET rank_counts == get_rank_counts([k \in DOMAIN hand |-> hand[k].rank])
    IN  {evaluate_five_card_hand(hand, iter) : iter \in IterOrders(rank_counts)}

-----------------------------------------------------------------------------
(* evaluate_hand                                                           *)

\* Itertools::combinations(k) over n items: the k-element index tuples drawn
\* from lo..n, each ascending, in lexicographic order
RECURSIVE Combinations(_, _, _)
Combinations(lo, n, k) ==
    IF k = 0 THEN <<<<>>>>
    ELSE IF n - lo + 1 < k THEN <<>>
    ELSE LET with == Combinations(lo + 1, n, k - 1)
         IN  [j \in 1..Len(with) |-> <<lo>> \o with[j]]
             \o Combinations(lo + 1, n, k)

\* the loop body with the comparison turned round
BestRankStepLess(best, rank) == IF HandRankLess(rank, best) THEN rank ELSE best

\* if rank > best_rank { best_rank = rank; }
BestRankStep(best, rank) == IF HandRankGreater(rank, best) THEN rank ELSE best

\* HandRank::HighCard(Rank::Two), the value best_rank starts with
LowestHand == HighCard(Two)

\* the values best_rank can hold after the combinations from position k on,
\* starting from any of the values in bests
RECURSIVE EvaluateHandLoop(_, _, _, _)
EvaluateHandLoop(cs, combos, k, bests) ==
    IF k > Len(combos) THEN bests
    ELSE EvaluateHandLoop(cs, combos, k + 1,
            {BestRankStep(b, r) : b \in bests,
                                  r \in FiveCardOutcomes(Permute(cs, combos[k]))})

\* every value evaluate_hand can return for these cards
evaluate_hand(cs) ==
    EvaluateHandLoop(cs, Combinations(1, Len(cs), 5), 1, {LowestHand})

-----------------------------------------------------------------------------
(* simulate_game, one step at a time, on a record of its locals            *)

EmptyMap == [k \in {} |-> 0]

\* *map.entry(key).or_insert(0) += n
AddCount(map, key, n) ==
    IF key \in DOMAIN map THEN [map EXCEPT ![key] = @ + n]
    ELSE map @@ (key :> n)

\* the state on entry: nothing built yet
GameEntry(n) ==
    [pc |-> "new", num_players |-> n, deck |-> <<>>, players |-> <<>>,
     community_cards |-> <<>>, i |-> 0, best_hand_rank |-> LowestHand,
     winner_indices |-> <<>>, hand_rank_counts |-> EmptyMap,
     hand_ranks |-> <<>>, winner |-> 0, deals |-> 0, exhausted |-> FALSE]

\* let mut deck = Deck::new();
GameNewDeck(g) == [g EXCEPT !.pc = "shuffle", !.deck = DeckNew]

\* deck.shuffle();
GameShuffleDeck(g, seed) ==
    [g EXCEPT !.pc = IF g.num_players = 0 THEN "shuffle_players" ELSE "deal_hole",
              !.deck = Shuffled(g.deck, seed)]

\* a failed unwrap() of deal(): the thread panics
GamePanic(g, calls) ==
    [g EXCEPT !.pc = "panicked", !.exhausted = TRUE, !.deck = <<>>,
              !.deals = g.deals + calls]

\* Player { hand: vec![deck.deal().unwrap(), deck.deal().unwrap()] }
GameDealHole(g) ==
    LET first == DealCard(g.deck)
        rest == DealRest(g.deck)
        second == DealCard(rest)
    IN  IF first = NoCard THEN GamePanic(g, 1)
        ELSE IF second = NoCard THEN GamePanic(g, 2)
        ELSE [g EXCEPT !.deck = DealRest(rest),
                       !.deals = g.deals + 2,
                       !.players = Append(g.players, <<first, second>>),
                       !.pc = IF Len(g.players) + 1 = g.num_players
                              THEN "shuffle_players" ELSE "deal_hole"]

\* players.shuffle(&mut thread_rng());
GameShufflePlayers(g, seed) ==
    [g EXCEPT !.pc = "deal_community", !.players = Shuffled(g.players, seed)]

\* a board loop that runs once too often
GameDealCommunitySix(g) ==
    LET card == DealCard(g.deck)
    IN  IF card = NoCard THEN GamePanic(g, 1)
        ELSE [g EXCEPT !.deck = DealRest(g.deck),
                       !.deals = g.deals + 1,
                       !.community_cards = Append(g.community_cards, card),
                       !.pc = IF Len(g.community_cards) + 1 < 6 THEN "deal_community"
                              ELSE IF g.num_players = 0 THEN "choose"
                              ELSE "evaluate"]

\* community_cards.push(deck.deal().unwrap()), one pass of the loop
GameDealCommunity(g) ==
    LET card == DealCard(g.deck)
    IN  IF card = NoCard THEN GamePanic(g, 1)
        ELSE [g EXCEPT !.deck = DealRest(g.deck),
                       !.deals = g.deals + 1,
                       !.community_cards = Append(g.community_cards, card),
                       !.pc = IF Len(g.community_cards) + 1 < 5 THEN "deal_community"
                              ELSE IF g.num_players = 0 THEN "choose"
                              ELSE "evaluate"]

\* the seven cards of the player in seat i: hand.clone() extended by the board
SeatCards(g) == g.players[g.i + 1] \o g.community_cards

\* if hand_rank > best_hand_rank {..} else if hand_rank == best_hand_rank {..}:
\* the new <<best_hand_rank, winner_indices>>
UpdateWinners(best, winners, i, rank) ==
    IF HandRankGreater(rank, best) THEN <<rank, <<i>>>>
    ELSE IF rank = best THEN <<best, Append(winners, i)>>
    ELSE <<best, winners>>

\* one pass of the evaluation loop, evaluate_hand having returned rank
GameEvaluate(g, rank) ==
    LET upd == UpdateWinners(g.best_hand_rank, g.winner_indices, g.i, rank)
    IN  [g EXCEPT !.hand_ranks = Append(g.hand_ranks, rank),
                  !.hand_rank_counts =
                      AddCount(g.hand_rank_counts, hand_rank_category(rank), 1),
                  !.best_hand_rank = upd[1],
                  !.winner_indices = upd[2],
                  !.i = g.i + 1,
                  !.pc = IF g.i + 1 = g.num_players THEN "choose" ELSE "evaluate"]

\* a choice that always takes the first of the tied seats
GameChooseFirst(g, k) ==
    IF g.winner_indices = <<>> THEN [g EXCEPT !.pc = "panicked"]
    ELSE [g EXCEPT !.pc = "returned", !.winner = g.winner_indices[1]]

\* *winner_indices.choose(&mut rng).unwrap(), the generator picking position k
GameChoose(g, k) ==
    IF g.winner_indices = <<>> THEN [g EXCEPT !.pc = "panicked"]
    ELSE [g EXCEPT !.pc = "returned", !.winner = g.winner_indices[k]]

\* the positions choose() can pick (one stand-in when there is nothing to pick)
ChoosePositions(g) ==
    IF g.winner_indices = <<>> THEN {1} ELSE DOMAIN g.winner_indices

-----------------------------------------------------------------------------
(* The five-card evaluator applied to bounded inputs                       *)

\* the suits of the five cards of an input, position by position
SuitPatterns ==
    {[k \in 1..5 |-> s] : s \in {"Clubs", "Spades"}}
    \cup {[k \in 1..5 |-> IF k = odd THEN "Diamonds" ELSE "Clubs"] : odd \in {1, 5}}
    \cup {<<"Clubs", "Diamonds", "Hearts", "Spades", "Clubs">>}

\* the orders in which the five cards of an input are handed to the evaluator
InputOrders == {<<1, 2, 3, 4, 5>>, <<3, 1, 5, 2, 4>>, <<5, 2, 4, 1, 3>>}

EvalIdle == cards = <<>> /\ hand_rank = NoRank /\ prev_rank = NoRank
DeckIdle == deck = <<>> /\ dealt = <<>> /\ last_deal = NoCard /\ shuffles = 0
HandIdle == all_cards = <<>> /\ combo = 0 /\ best_rank = NoRank /\ returned = {}
SimIdle == game = GameEntry(0)
MainIdle ==
    /\ num_games = 0 /\ num_players = 0 /\ remaining = 0 /\ worker = <<>>
    /\ wins = <<>> /\ hand_rank_counts = EmptyMap
    /\ wins_mutex = Free /\ counts_mutex = Free

InitEval ==
    /\ DeckIdle /\ HandIdle /\ SimIdle /\ MainIdle
    /\ \E r1 \in Ranks : \E r2 \in r1..Ace : \E r3 \in r2..Ace :
       \E r4 \in r3..Ace : \E r5 \in r4..Ace : \E sp \in SuitPatterns :
          LET rv == <<r1, r2, r3, r4, r5>>
              h == [k \in 1..5 |-> Card(rv[k], sp[k])]
          IN  /\ Cardinality(Range(h)) = 5
              /\ cards = h
    /\ hand_rank = NoRank
    /\ prev_rank = NoRank

\* one call of evaluate_five_card_hand on the cards, handed over in some order
Evaluate ==
    /\ \E p \in InputOrders :
          LET arg == Permute(cards, p)
          IN  \E iter \in IterOrders(get_rank_counts(RanksOf(arg))) :
                 hand_rank' = evaluate_five_card_hand(arg, iter)
    /\ prev_rank' = hand_rank
    /\ UNCHANGED <<cards, deckVars, handVars, simVars, mainVars>>

NextEval == Evaluate

SpecEval == InitEval /\ [][NextEval]_vars

-----------------------------------------------------------------------------
(* Claims about evaluate_five_card_hand                                    *)

RankSet == Range(RanksOf(cards))
SuitSet == {cards[k].suit : k \in DOMAIN cards}
Evaluated == hand_rank # NoRank
IsWheel == RankSet = {Ace, Two, Three, Four, Five}

\* the values the evaluator returns for a six-high straight that is no flush
SixHighStraightValues ==
    FiveCardOutcomes(<<Card(Two, "Clubs"), Card(Three, "Diamonds"),
                       Card(Four, "Hearts"), Card(Five, "Spades"),
                       Card(Six, "Clubs")>>)

\* C1: a wheel (ranks A,2,3,4,5, suits not all identical) evaluates to
\* Straight carrying Five, strictly less than the value of any six-high
\* straight.
C1_WheelIsFiveHigh ==
    (Evaluated /\ IsWheel /\ Cardinality(SuitSet) > 1) =>
        /\ hand_rank = Straight(Five)
        /\ \A six \in SixHighStraightValues : HandRankLess(hand_rank, six)

\* C2: two calls on the same five cards, in whatever order the cards are
\* handed over, return the same HandRank value.
C2_SameValueEveryCall ==
    (prev_rank # NoRank /\ hand_rank # NoRank) => prev_rank = hand_rank

\* the category order HighCard < OnePair < ... < RoyalFlush, as stated
CategoryOrder ==
    <<"HighCard", "OnePair", "TwoPair", "ThreeOfAKind", "Straight", "Flush",
      "FullHouse", "FourOfAKind", "StraightFlush", "RoyalFlush">>

CategoryPosition(cat) == CHOOSE k \in DOMAIN CategoryOrder : CategoryOrder[k] = cat

IsRoyalHand == RankSet = Ten..Ace /\ Cardinality(SuitSet) = 1

\* C8: a returned value is strictly greater than every HandRank of a lower
\* category whatever ranks the two carry, and ten-to-ace of one suit evaluates
\* to RoyalFlush, strictly greater than every StraightFlush.
C8_CategoryOrderRespected ==
    Evaluated =>
        /\ hand_rank \in HandRankValues
        /\ \A other \in HandRankValues :
              CategoryPosition(other.cat) < CategoryPosition(hand_rank.cat)
                  => /\ HandRankLess(other, hand_rank)
                     /\ ~HandRankLess(hand_rank, other)
        /\ IsRoyalHand =>
              /\ hand_rank = RoyalFlush
              /\ \A r \in Ranks : HandRankLess(StraightFlush(r), hand_rank)

C8_Witness == Evaluated /\ IsRoyalHand /\ hand_rank = RoyalFlush

CountOf(r) == Cardinality({k \in DOMAIN cards : cards[k].rank = r})
RanksWithCount(n) == {r \in Ranks : CountOf(r) = n}
MaxRank == CHOOSE r \in RankSet : \A q \in RankSet : q <= r
MinRank == CHOOSE r \in RankSet : \A q \in RankSet : r <= q
AllOneSuit == Cardinality(SuitSet) = 1
FiveInARow ==
    /\ Cardinality(RankSet) = 5
    /\ MaxRank - MinRank = 4 \/ RankSet = {2, 3, 4, 5, 14}

\* C10: the category (and, where stated, the carried ranks) follows the
\* priority order on the flush and straight tests and the rank counts; a
\* straight is five distinct ranks spanning four, or the set {2,3,4,5,14}.
C10_PriorityOrder ==
    Evaluated =>
        IF AllOneSuit /\ FiveInARow
        THEN hand_rank.cat \in {"RoyalFlush", "StraightFlush"}
        ELSE IF RanksWithCount(4) # {} THEN hand_rank.cat = "FourOfAKind"
        ELSE IF RanksWithCount(3) # {} /\ RanksWithCount(2) # {}
        THEN \E t \in RanksWithCount(3) : \E p \in RanksWithCount(2) :
                hand_rank = FullHouse(t, p)
        ELSE IF AllOneSuit THEN hand_rank = Flush(MaxRank)
        ELSE IF FiveInARow THEN hand_rank.cat = "Straight"
        ELSE IF RanksWithCount(3) # {}
        THEN \E t \in RanksWithCount(3) : hand_rank = ThreeOfAKind(t)
        ELSE IF Cardinality(RanksWithCount(2)) = 2 THEN hand_rank.cat = "TwoPair"
        ELSE IF Cardinality(RanksWithCount(2)) = 1
        THEN \E p \in RanksWithCount(2) : hand_rank = OnePair(p)
        ELSE hand_rank = HighCard(MaxRank)

\* a queen-king-ace-two-three hand has been evaluated, and is no straight
C10_Witness ==
    /\ Evaluated
    /\ RankSet = {12, 13, 14, 2, 3}
    /\ hand_rank = HighCard(Ace)

-----------------------------------------------------------------------------
(* The deck on its own: new(), then shuffle() and deal() in any order      *)

MaxShuffles == 1
DeckSeeds == 2

InitDeck ==
    /\ EvalIdle /\ HandIdle /\ SimIdle /\ MainIdle
    /\ deck = DeckNew
    /\ dealt = <<>>
    /\ last_deal = NoCard
    /\ shuffles = 0

Shuffle ==
    /\ shuffles < MaxShuffles
    /\ \E seed \in 1..DeckSeeds : deck' = Shuffled(deck, seed)
    /\ shuffles' = shuffles + 1
    /\ UNCHANGED <<dealt, last_deal, evalVars, handVars, simVars, mainVars>>

Deal ==
    /\ last_deal' = DealCard(deck)
    /\ deck' = DealRest(deck)
    /\ dealt' = IF deck = <<>> THEN dealt ELSE Append(dealt, DealCard(deck))
    /\ UNCHANGED <<shuffles, evalVars, handVars, simVars, mainVars>>

NextDeck == Shuffle \/ Deal

SpecDeck == InitDeck /\ [][NextDeck]_vars

AllCards == {Card(r, s) : r \in Ranks, s \in Range(Suits)}

DeckConserved ==
    /\ Len(deck) + Len(dealt) = 52
    /\ Range(deck) \cup Range(dealt) = AllCards
    /\ Cardinality(AllCards) = 52
    /\ shuffles = 0 /\ dealt = <<>> => deck = DeckNew
    /\ last_deal = NoCard /\ dealt # <<>> => deck = <<>>

\* C7: the deck starts as the 52 distinct (rank, suit) pairs; shuffle() only
\* reorders them; after k deals 52-k cards are left, each deal returned and
\* removed the top (last) card, and the dealt and the remaining cards are
\* the original 52, none twice; deal() on an empty deck returns the
\* exhaustion value and leaves the deck empty.
C7_DeckConservation ==
    /\ [](DeckConserved)
    /\ [][/\ shuffles' # shuffles =>
                /\ Len(deck') = Len(deck)
                /\ Range(deck') = Range(deck)
                /\ dealt' = dealt
          /\ dealt' # dealt =>
                /\ deck # <<>>
                /\ dealt' = Append(dealt, deck[Len(deck)])
                /\ last_deal' = deck[Len(deck)]
                /\ deck' = SubSeq(deck, 1, Len(deck) - 1)
          /\ (shuffles' = shuffles /\ deck = <<>>) =>
                /\ last_deal' = NoCard
                /\ deck' = <<>>
                /\ dealt' = dealt]_vars

\* all 52 cards have been dealt from a shuffled deck and one more deal()
\* has returned the exhaustion value
C7_Witness ==
    /\ shuffles > 0
    /\ Len(dealt) = 52
    /\ deck = <<>>
    /\ last_deal = NoCard
    /\ dealt # Reverse(DeckNew)

-----------------------------------------------------------------------------
(* evaluate_hand, one pass of its loop at a time, on bounded inputs        *)

HandSeeds == 120

HandCombos == Combinations(1, Len(all_cards), 5)

\* the first seven cards dealt from a shuffled deck
InitHand ==
    /\ EvalIdle /\ DeckIdle /\ SimIdle /\ MainIdle
    /\ \E seed \in 1..HandSeeds :
          LET d == Shuffled(DeckNew, seed)
          IN  all_cards = [k \in 1..7 |-> d[Len(d) + 1 - k]]
    /\ combo = 1
    /\ best_rank = LowestHand
    /\ returned = {}

\* for combo in cards.iter().combinations(5) { .. }: one pass
EvaluateCombo ==
    /\ combo <= Len(HandCombos)
    /\ \E rank \in FiveCardOutcomes(Permute(all_cards, HandCombos[combo])) :
          /\ best_rank' = BestRankStep(best_rank, rank)
          /\ returned' = returned \cup {rank}
    /\ combo' = combo + 1
    /\ UNCHANGED <<all_cards, evalVars, deckVars, simVars, mainVars>>

NextHand == EvaluateCombo

SpecHand == InitHand /\ [][NextHand]_vars

HandReturned == all_cards # <<>> /\ combo = Len(HandCombos) + 1

FiveCardSubsets == {S \in SUBSET Range(all_cards) : Cardinality(S) = 5}

\* C4: the value evaluate_hand returns is the maximum, under the HandRank
\* order, of the values evaluate_five_card_hand returned for the 21 distinct
\* five-card subsets, each evaluated exactly once; the initial HighCard(Two)
\* is returned only if it is that maximum.
C4_MaxOverSubsets ==
    HandReturned =>
        /\ Len(HandCombos) = 21
        /\ {Range(Permute(all_cards, HandCombos[k])) : k \in DOMAIN HandCombos}
               = FiveCardSubsets
        /\ Cardinality(FiveCardSubsets) = 21
        /\ best_rank \in returned
        /\ \A rank \in returned : ~HandRankLess(best_rank, rank)
        /\ \A k \in DOMAIN HandCombos :
              \E rank \in returned :
                 rank \in FiveCardOutcomes(Permute(all_cards, HandCombos[k]))
        /\ best_rank \in evaluate_hand(all_cards)

\* the loop has ended on a hand whose best five cards are not the first
\* combination: a later subset replaced an earlier, lower best_rank
C4_Witness ==
    /\ HandReturned
    /\ Cardinality(returned) > 2
    /\ best_rank \notin FiveCardOutcomes(Permute(all_cards, HandCombos[1]))
    /\ best_rank.cat # "HighCard"

-----------------------------------------------------------------------------
(* One simulated game                                                      *)

SmallPlayers == 3
GameSeeds == 6
SeatSeeds == 2

\* the greatest num_players with 2 * num_players + 5 <= 52
MostSeats == (Len(DeckNew) - 5) \div 2

\* the values of num_players tried: the small ones, the greatest that fits
\* the deck, and the first that does not
PlayerCounts == (0..SmallPlayers) \cup {MostSeats, MostSeats + 1}

InitSim ==
    /\ EvalIdle /\ DeckIdle /\ HandIdle /\ MainIdle
    /\ \E n \in PlayerCounts : game = GameEntry(n)

NewDeck ==
    /\ game.pc = "new"
    /\ game' = GameNewDeck(game)
    /\ UNCHANGED <<evalVars, deckVars, handVars, mainVars>>

ShuffleDeck ==
    /\ game.pc = "shuffle"
    /\ \E seed \in 1..GameSeeds : game' = GameShuffleDeck(game, seed)
    /\ UNCHANGED <<evalVars, deckVars, handVars, mainVars>>

DealHole ==
    /\ game.pc = "deal_hole"
    /\ game' = GameDealHole(game)
    /\ UNCHANGED <<evalVars, deckVars, handVars, mainVars>>

ShufflePlayers ==
    /\ game.pc = "shuffle_players"
    /\ \E seed \in 1..SeatSeeds : game' = GameShufflePlayers(game, seed)
    /\ UNCHANGED <<evalVars, deckVars, handVars, mainVars>>

DealCommunity ==
    /\ game.pc = "deal_community"
    /\ game' = GameDealCommunity(game)
    /\ UNCHANGED <<evalVars, deckVars, handVars, mainVars>>

EvaluatePlayer ==
    /\ game.pc = "evaluate"
    /\ \E rank \in evaluate_hand(SeatCards(game)) : game' = GameEvaluate(game, rank)
    /\ UNCHANGED <<evalVars, deckVars, handVars, mainVars>>

ChooseWinner ==
    /\ game.pc = "choose"
    /\ \E k \in ChoosePositions(game) : game' = GameChoose(game, k)
    /\ UNCHANGED <<evalVars, deckVars, handVars, mainVars>>

NextSim ==
    \/ NewDeck \/ ShuffleDeck \/ DealHole \/ ShufflePlayers
    \/ DealCommunity \/ EvaluatePlayer \/ ChooseWinner

SpecSim == InitSim /\ [][NextSim]_vars

SeatsFit == 2 * game.num_players + 5 <= 52

\* C6: a num_players with 2 * num_players + 5 > 52 is rejected before the
\* simulation starts: no deck is built, no card is dealt, and no deal() from
\* an exhausted deck happens.
C6_RejectedBeforeStart ==
    ~SeatsFit =>
        /\ game.pc = "new"
        /\ game.deck = <<>>
        /\ game.deals = 0
        /\ ~game.exhausted

NoImpossibleState ==
    /\ game.pc # "panicked"
    /\ ~game.exhausted
    /\ game.pc \in {"evaluate", "choose", "returned"} =>
          /\ game.deals = 2 * game.num_players + 5
          /\ Len(game.deck) = 47 - 2 * game.num_players
    /\ game.pc = "choose" => game.winner_indices # <<>>
    /\ game.pc = "returned" => game.winner \in 0..(game.num_players - 1)

\* C9 as stated: for every num_players with 2 * num_players + 5 <= 52 no
\* deal() returns exhaustion, exactly 2 * num_players + 5 cards are popped,
\* the tied set is not empty when the winner is chosen, and the index
\* returned lies in 0..num_players-1.
C9_NoImpossibleState == SeatsFit => NoImpossibleState

\* C9 for at least one player: the same, for every num_players with
\* 1 <= num_players and 2 * num_players + 5 <= 52.
C9_NoImpossibleStateWithPlayers ==
    (game.num_players >= 1 /\ SeatsFit) => NoImpossibleState

\* a game of 23 players has returned, one card left in the deck
C9_Witness ==
    /\ game.pc = "returned"
    /\ game.num_players = 23
    /\ Len(game.deck) = 1
    /\ game.deals = 51

\* the seats whose evaluated HandRank no other seat's exceeds
MaxHolders(g) ==
    {i \in 0..(Len(g.hand_ranks) - 1) :
        \A j \in DOMAIN g.hand_ranks :
            ~HandRankLess(g.hand_ranks[i + 1], g.hand_ranks[j])}

\* C5: the tied set is exactly the set of seats whose evaluated HandRank is
\* the maximum over the seats evaluated; the values simulate_game can return
\* are exactly the tied seats, and the value it returned is one of them.
C5_WinnerAmongMaxHolders ==
    /\ game.pc \in {"evaluate", "choose", "returned"} =>
          /\ Range(game.winner_indices) = MaxHolders(game)
          /\ Cardinality(Range(game.winner_indices)) = Len(game.winner_indices)
    /\ game.pc = "choose" =>
          /\ Len(game.hand_ranks) = game.num_players
          /\ {GameChoose(game, k).winner : k \in DOMAIN game.winner_indices}
                 = MaxHolders(game)
    /\ game.pc = "returned" => game.winner \in MaxHolders(game)

\* a game has returned a tied seat that is not the lowest of the tied seats
C5_Witness ==
    /\ game.pc = "returned"
    /\ Len(game.winner_indices) >= 2
    /\ game.winner # game.winner_indices[1]
    /\ \E i \in DOMAIN game.hand_ranks :
          HandRankLess(game.hand_ranks[i], game.best_hand_rank)

-----------------------------------------------------------------------------
(* main: the trials run by a pool of workers, merged under two mutexes     *)

NumWorkers == 2
MaxGames == 2
MaxMainPlayers == 2

\* simulate_game run to its end: the records it can end in
RECURSIVE RunGame(_)
RunGame(g) ==
    CASE g.pc = "new" -> RunGame(GameNewDeck(g))
      [] g.pc = "shuffle" ->
            UNION {RunGame(GameShuffleDeck(g, seed)) : seed \in 1..GameSeeds}
      [] g.pc = "deal_hole" -> RunGame(GameDealHole(g))
      [] g.pc = "shuffle_players" ->
            UNION {RunGame(GameShufflePlayers(g, seed)) : seed \in 1..SeatSeeds}
      [] g.pc = "deal_community" -> RunGame(GameDealCommunity(g))
      [] g.pc = "evaluate" ->
            UNION {RunGame(GameEvaluate(g, rank)) :
                      rank \in evaluate_hand(SeatCards(g))}
      [] g.pc = "choose" ->
            UNION {RunGame(GameChoose(g, k)) : k \in ChoosePositions(g)}
      [] OTHER -> {g}

\* what a call of simulate_game hands back to main: whether it panicked, the
\* winner, and the caller's local_hand_rank_counts as it left it
simulate_game(n) ==
    {[panicked |-> g.pc = "panicked", winner |-> g.winner,
      local_hand_rank_counts |-> g.hand_rank_counts] : g \in RunGame(GameEntry(n))}

TrialOutcomes == [n \in 0..MaxMainPlayers |-> simulate_game(n)]

Idle == [pc |-> "idle", winner |-> 0, local_hand_rank_counts |-> EmptyMap]

\* a merge that stores the trial's counts over the totals
MergeCountsOverwrite(global, local) ==
    [k \in DOMAIN global \cup DOMAIN local |->
        IF k \in DOMAIN local THEN local[k] ELSE global[k]]

\* for (key, count) in local { *global.entry(key).or_insert(0) += count; }
RECURSIVE MergeCounts(_, _)
MergeCounts(global, local) ==
    IF DOMAIN local = {} THEN global
    ELSE LET key == CHOOSE k \in DOMAIN local : TRUE
             rest == [k \in DOMAIN local \ {key} |-> local[k]]
         IN  MergeCounts(AddCount(global, key, local[key]), rest)

InitMain ==
    /\ EvalIdle /\ DeckIdle /\ HandIdle /\ SimIdle
    /\ num_games \in 1..MaxGames
    /\ num_players \in 0..MaxMainPlayers
    /\ remaining = num_games
    /\ worker = [w \in 1..NumWorkers |-> Idle]
    /\ wins = [k \in 1..num_players |-> 0]
    /\ hand_rank_counts = EmptyMap
    /\ wins_mutex = Free
    /\ counts_mutex = Free

Aborted == \E w \in DOMAIN worker : worker[w].pc = "panicked"

\* a worker takes the next trial and runs simulate_game on its own locals
RunTrial(w) ==
    /\ worker[w].pc = "idle"
    /\ remaining > 0
    /\ ~Aborted
    /\ remaining' = remaining - 1
    /\ \E out \in TrialOutcomes[num_players] :
          worker' = [worker EXCEPT ![w] =
                        [pc |-> IF out.panicked THEN "panicked" ELSE "lock_wins",
                         winner |-> out.winner,
                         local_hand_rank_counts |-> out.local_hand_rank_counts]]
    /\ UNCHANGED <<num_games, num_players, wins, hand_rank_counts, wins_mutex,
                   counts_mutex, evalVars, deckVars, handVars, simVars>>

\* let mut wins_lock = wins.lock().unwrap();
LockWins(w) ==
    /\ worker[w].pc = "lock_wins"
    /\ wins_mutex = Free
    /\ wins_mutex' = w
    /\ worker' = [worker EXCEPT ![w].pc = "update_wins"]
    /\ UNCHANGED <<num_games, num_players, remaining, wins, hand_rank_counts,
                   counts_mutex, evalVars, deckVars, handVars, simVars>>

\* wins_lock[winner] += 1; and the guard dropped at the end of the block
UpdateWins(w) ==
    /\ worker[w].pc = "update_wins"
    /\ wins_mutex = w
    /\ IF worker[w].winner + 1 \in DOMAIN wins
       THEN /\ wins' = [wins EXCEPT ![worker[w].winner + 1] = @ + 1]
            /\ worker' = [worker EXCEPT ![w].pc = "lock_counts"]
       ELSE /\ wins' = wins
            /\ worker' = [worker EXCEPT ![w].pc = "panicked"]
    /\ wins_mutex' = Free
    /\ UNCHANGED <<num_games, num_players, remaining, hand_rank_counts,
                   counts_mutex, evalVars, deckVars, handVars, simVars>>

\* let mut hand_rank_counts_lock = hand_rank_counts.lock().unwrap();
LockCounts(w) ==
    /\ worker[w].pc = "lock_counts"
    /\ counts_mutex = Free
    /\ counts_mutex' = w
    /\ worker' = [worker EXCEPT ![w].pc = "update_counts"]
    /\ UNCHANGED <<num_games, num_players, remaining, wins, hand_rank_counts,
                   wins_mutex, evalVars, deckVars, handVars, simVars>>

\* the merge loop, and the guard dropped at the end of the block; the
\* closure returns and the worker is free for another trial
UpdateCounts(w) ==
    /\ worker[w].pc = "update_counts"
    /\ counts_mutex = w
    /\ hand_rank_counts' =
          MergeCounts(hand_rank_counts, worker[w].local_hand_rank_counts)
    /\ counts_mutex' = Free
    /\ worker' = [worker EXCEPT ![w] = Idle]
    /\ UNCHANGED <<num_games, num_players, remaining, wins, wins_mutex,
                   evalVars, deckVars, handVars, simVars>>

Next ==
    \E w \in 1..NumWorkers :
        \/ RunTrial(w) \/ LockWins(w) \/ UpdateWins(w)
        \/ LockCounts(w) \/ UpdateCounts(w)

Spec == InitMain /\ [][Next]_vars

RECURSIVE SumSeq(_)
SumSeq(s) == IF s = <<>> THEN 0 ELSE Head(s) + SumSeq(Tail(s))

RECURSIVE SumMap(_)
SumMap(m) ==
    IF DOMAIN m = {} THEN 0
    ELSE LET key == CHOOSE k \in DOMAIN m : TRUE
         IN  m[key] + SumMap([k \in DOMAIN m \ {key} |-> m[k]])

\* for_each has returned: every trial was taken and every worker is through
AllTrialsRun ==
    /\ worker # <<>>
    /\ remaining = 0
    /\ \A w \in DOMAIN worker : worker[w].pc = "idle"

\* C3: once all num_games trials have run, in whatever order the workers
\* took the two mutexes, the win counters sum to num_games and the category
\* counts sum to num_games * num_players.
C3_TotalsAfterAllTrials ==
    AllTrialsRun =>
        /\ SumSeq(wins) = num_games
        /\ SumMap(hand_rank_counts) = num_games * num_players
        /\ DOMAIN hand_rank_counts \subseteq Range(Categories)

\* two trials of a two-player game have run and been merged
C3_Witness ==
    /\ AllTrialsRun
    /\ num_games = 2
    /\ num_players = 2
    /\ SumSeq(wins) = num_games
    /\ SumMap(hand_rank_counts) = 2 * num_games

=============================================================================
